---- MODULE Spec2Model ----
(***************************************************************************)
(* A model of the two flows of the repository:                             *)
(*   - lerobot/common/envs/factory.py: make_env, the batched environment   *)
(*     factory (specification SpecEnv);                                    *)
(*   - lerobot/scripts/upload_saved_dataset.py: convert_lists_to_tensors   *)
(*     (specification SpecConv) and main, the upload pipeline              *)
(*     (specification SpecUpload).                                         *)
(***************************************************************************)
EXTENDS Integers, Sequences, FiniteSets, TLC

VARIABLES
    \* ---- make_env ----
    cfg,                \* the configuration: name, seed, rollout_batch_size, episode_length
    transform,          \* the transform argument: [kind, items (ids of the caller's objects)]
    heap,               \* the transform objects that exist: id -> [kind, param, state]
    epc,                \* position in make_env
    clsfunc,            \* the selected environment class
    kwargs,             \* the shared keyword-argument dict
    create_env_kwargs,  \* what SerialEnv holds: one kwargs dict per worker
    worker,             \* index of the worker whose environment is being built
    cur,                \* the environment _make_env is building: [inst, transforms]
    tfi,                \* position of the loop over the transform chain
    envs,               \* the environments _make_env has returned, in worker order
    constructed,        \* number of calls of clsfunc so far
    wrapped,            \* number of TransformedEnv wrappers built so far
    eerror,             \* the exception make_env ended with, if any
    result,             \* what make_env returned
    mutations,          \* number of state changes applied to transforms afterwards
    \* ---- convert_lists_to_tensors ----
    dataset,            \* the dataset given to convert_lists_to_tensors
    once,               \* the result of one application
    twice,              \* the result of applying it to that result
    cpc,                \* position of the conversion experiment
    \* ---- main (upload pipeline) ----
    args,               \* the command line: [compute_stats]
    fs,                 \* the dataset directory: which paths exist, and their contents
    upc,                \* position in main
    log,                \* the steps main has started, in order
    hf_dataset,         \* the row table main holds
    info,               \* the loaded info.json
    episode_data_index, \* the episode index main holds
    calcCalls,          \* calls of calculate_episode_data_index
    loadCalls,          \* loads of episode_data_index.json
    lerobot_dataset,    \* the assembled dataset object
    pushCalls,          \* calls of push_lerobot_dataset_to_hub
    pushed,             \* what the hub has received
    uerror              \* the exception main ended with, if any

envVars == <<cfg, transform, heap, epc, clsfunc, kwargs, create_env_kwargs, worker,
             cur, tfi, envs, constructed, wrapped, eerror, result, mutations>>
convVars == <<dataset, once, twice, cpc>>
upVars == <<args, fs, upc, log, hf_dataset, info, episode_data_index, calcCalls,
            loadCalls, lerobot_dataset, pushCalls, pushed, uerror>>
vars == <<envVars, convVars, upVars>>

(***************************************************************************)
(* Bounds of the model.                                                    *)
(***************************************************************************)
MaxBatch == 3
MaxSeed == 1
MaxChain == 2
MaxMutations == 2
MaxRows == 2

NoError == [type |-> "none", arg |-> "none"]
NoIndex == [source |-> "none", of |-> <<>>, id |-> 0]
NoDataset ==
    [repo_id |-> "none", hf_dataset |-> <<>>, episode_data_index |-> NoIndex,
     info |-> "none", stats |-> "none"]

(***************************************************************************)
(* make_env                                                                *)
(***************************************************************************)
EnvNames == {"simxarm", "pusht", "aloha", "Pusht", "not_a_real_env"}
Supported == {"simxarm", "pusht", "aloha"}
EpisodeLengths == {5, 7}
TransformKinds == {"VecNorm", "StepCounter"}
CallerCaps == {9}

\* A mutant of ClsFunc: the name is matched without regard to case.
ClsFuncIgnoringCase(name) ==
    CASE name = "simxarm" -> "SimxarmEnv"
      [] name \in {"pusht", "Pusht"} -> "PushtEnv"
      [] name = "aloha" -> "AlohaEnv"
      [] OTHER -> "none"

\* The if/elif chain over cfg.env.name; "none" is the else branch (raise).
ClsFunc(name) ==
    CASE name = "simxarm" -> "SimxarmEnv"
      [] name = "pusht" -> "PushtEnv"
      [] name = "aloha" -> "AlohaEnv"
      [] OTHER -> "none"

\* kwargs after the if/elif chain: "task" is a key for simxarm and aloha only.
BaseKwargs(name, seed) ==
    IF name \in {"simxarm", "aloha"}
    THEN [seed |-> seed, task |-> "cfg.env.task"]
    ELSE [seed |-> seed]

\* range(a, b) as a sequence.
Range(a, b) == [i \in 1..(IF b > a THEN b - a ELSE 0) |-> a + i - 1]

\* d[key] = value on a dict.
DictSet(d, key, value) ==
    [k \in (DOMAIN d) \cup {key} |-> IF k = key THEN value ELSE d[k]]

\* {"seed": env_seed for env_seed in seeds}: every iteration stores under the
\* one key "seed".
RECURSIVE DictComp(_, _)
DictComp(seeds, d) ==
    IF seeds = <<>> THEN d
    ELSE DictComp(Tail(seeds), DictSet(d, "seed", Head(seeds)))

EmptyDict == [k \in {} |-> 0]

\* SerialEnv(num_workers, create_env_fn, create_env_kwargs) given one dict:
\* every worker is created with that dict.
SerialEnvKwargs(num_workers, d) == [i \in 1..num_workers |-> d]

NoInst == [cls |-> "none", seed |-> -1, hasTask |-> FALSE]
NoEnv == [inst |-> NoInst, transforms |-> <<>>]

\* clsfunc(**kwargs)
NewInstance(cls, kw) == [cls |-> cls, seed |-> kw["seed"], hasTask |-> "task" \in DOMAIN kw]

\* A mutant of StepCounterObj: the cap is taken from the wrong configuration field.
StepCounterWrongCap(c) == [kind |-> "StepCounter", param |-> c.rollout_batch_size, state |-> 0]

\* StepCounter(max_steps=cfg.env.episode_length)
StepCounterObj(c) == [kind |-> "StepCounter", param |-> c.episode_length, state |-> 0]

\* A mutant of Clone: the transform itself is appended, not a clone of it.
CloneShared(h, id) == [heap |-> h, id |-> id]

\* tf.clone(): a new object holding a copy of tf's state.
Clone(h, id) == [heap |-> Append(h, h[id]), id |-> Len(h) + 1]

\* env.append_transform(t)
AppendTransform(ts, t) == Append(ts, t)

CallerHeaps ==
    UNION {[1..k -> [kind : TransformKinds, param : CallerCaps, state : {0}]] : k \in 0..MaxChain}

EnvInit ==
    /\ cfg \in [name : EnvNames, seed : 0..MaxSeed,
                rollout_batch_size : 1..MaxBatch, episode_length : EpisodeLengths]
    /\ heap \in CallerHeaps
    /\ transform \in
         {[kind |-> "Compose", items |-> [i \in 1..Len(heap) |-> i]]}
         \cup (IF Len(heap) = 1 THEN {[kind |-> "Transform", items |-> <<1>>]} ELSE {})
         \cup (IF Len(heap) = 0
               THEN {[kind |-> "None", items |-> <<>>], [kind |-> "Other", items |-> <<>>]}
               ELSE {})
    /\ epc = "select"
    /\ clsfunc = "none"
    /\ kwargs = [seed |-> cfg.seed]
    /\ create_env_kwargs = <<>>
    /\ worker = 0
    /\ cur = NoEnv
    /\ tfi = 1
    /\ envs = <<>>
    /\ constructed = 0
    /\ wrapped = 0
    /\ eerror = NoError
    /\ result = "none"
    /\ mutations = 0
    \* the other flows are not running
    /\ dataset = <<>>
    /\ once = <<>>
    /\ twice = <<>>
    /\ cpc = "idle"
    /\ args = [compute_stats |-> FALSE]
    /\ fs = [root |-> FALSE, train |-> FALSE, meta |-> FALSE, infoFile |-> FALSE,
             indexFile |-> FALSE, table |-> <<>>,
             indexContents |-> [source |-> "file", of |-> <<>>, id |-> 1]]
    /\ upc = "idle"
    /\ log = <<>>
    /\ hf_dataset = <<>>
    /\ info = "none"
    /\ episode_data_index = NoIndex
    /\ calcCalls = 0
    /\ loadCalls = 0
    /\ lerobot_dataset = NoDataset
    /\ pushCalls = 0
    /\ pushed = NoDataset
    /\ uerror = NoError

\* Lines 20-37: select the class, or raise ValueError(cfg.env.name).
SelectEnv ==
    /\ epc = "select"
    /\ IF ClsFunc(cfg.name) = "none"
       THEN /\ epc' = "raised"
            /\ eerror' = [type |-> "ValueError", arg |-> cfg.name]
            /\ UNCHANGED <<clsfunc, kwargs>>
       ELSE /\ epc' = "serial"
            /\ clsfunc' = ClsFunc(cfg.name)
            /\ kwargs' = BaseKwargs(cfg.name, cfg.seed)
            /\ UNCHANGED eerror
    /\ UNCHANGED <<cfg, transform, heap, create_env_kwargs, worker, cur, tfi, envs,
                   constructed, wrapped, result, mutations>>
    /\ UNCHANGED <<convVars, upVars>>

\* Lines 59-66: the arguments of SerialEnv are evaluated and the workers set up.
MakeSerialEnv ==
    /\ epc = "serial"
    /\ create_env_kwargs' =
         SerialEnvKwargs(cfg.rollout_batch_size,
                         DictComp(Range(cfg.seed, cfg.seed + cfg.rollout_batch_size), EmptyDict))
    /\ worker' = 0
    /\ epc' = "instantiate"
    /\ UNCHANGED <<cfg, transform, heap, clsfunc, kwargs, cur, tfi, envs, constructed,
                   wrapped, eerror, result, mutations>>
    /\ UNCHANGED <<convVars, upVars>>

\* Lines 39-42: _make_env(seed) stores the seed in the shared kwargs and
\* instantiates the environment.
Instantiate ==
    /\ epc = "instantiate"
    /\ LET kw == DictSet(kwargs, "seed", create_env_kwargs[worker + 1]["seed"])
       IN /\ kwargs' = kw
          /\ cur' = [inst |-> NewInstance(clsfunc, kw), transforms |-> <<>>]
    /\ constructed' = constructed + 1
    /\ epc' = "wrap"
    /\ UNCHANGED <<cfg, transform, heap, clsfunc, create_env_kwargs, worker, tfi, envs,
                   wrapped, eerror, result, mutations>>
    /\ UNCHANGED <<convVars, upVars>>

\* Line 45: TransformedEnv(env, StepCounter(max_steps=cfg.env.episode_length)).
Wrap ==
    /\ epc = "wrap"
    /\ heap' = Append(heap, StepCounterObj(cfg))
    /\ cur' = [cur EXCEPT !.transforms =
                 AppendTransform(cur.transforms, [id |-> Len(heap) + 1, of |-> 0])]
    /\ wrapped' = wrapped + 1
    /\ tfi' = 1
    /\ epc' = "transform"
    /\ UNCHANGED <<cfg, transform, clsfunc, kwargs, create_env_kwargs, worker, envs,
                   constructed, eerror, result, mutations>>
    /\ UNCHANGED <<convVars, upVars>>

\* Line 47: transform is None.
SkipTransform ==
    /\ epc = "transform"
    /\ transform.kind = "None"
    /\ epc' = "return"
    /\ UNCHANGED <<cfg, transform, heap, clsfunc, kwargs, create_env_kwargs, worker, cur,
                   tfi, envs, constructed, wrapped, eerror, result, mutations>>
    /\ UNCHANGED <<convVars, upVars>>

\* Lines 49-51: one iteration of the loop over a Compose.
AppendComposeClone ==
    /\ epc = "transform"
    /\ transform.kind = "Compose"
    /\ tfi <= Len(transform.items)
    /\ LET c == Clone(heap, transform.items[tfi])
       IN /\ heap' = c.heap
          /\ cur' = [cur EXCEPT !.transforms =
                       AppendTransform(cur.transforms,
                                       [id |-> c.id, of |-> transform.items[tfi]])]
    /\ tfi' = tfi + 1
    /\ UNCHANGED <<cfg, transform, epc, clsfunc, kwargs, create_env_kwargs, worker, envs,
                   constructed, wrapped, eerror, result, mutations>>
    /\ UNCHANGED <<convVars, upVars>>

\* Lines 50-51: the loop over a Compose ends.
EndCompose ==
    /\ epc = "transform"
    /\ transform.kind = "Compose"
    /\ tfi > Len(transform.items)
    /\ epc' = "return"
    /\ UNCHANGED <<cfg, transform, heap, clsfunc, kwargs, create_env_kwargs, worker, cur,
                   tfi, envs, constructed, wrapped, eerror, result, mutations>>
    /\ UNCHANGED <<convVars, upVars>>

\* Lines 52-53: a single Transform.
AppendSingleClone ==
    /\ epc = "transform"
    /\ transform.kind = "Transform"
    /\ LET c == Clone(heap, transform.items[1])
       IN /\ heap' = c.heap
          /\ cur' = [cur EXCEPT !.transforms =
                       AppendTransform(cur.transforms,
                                       [id |-> c.id, of |-> transform.items[1]])]
    /\ epc' = "return"
    /\ UNCHANGED <<cfg, transform, clsfunc, kwargs, create_env_kwargs, worker, tfi, envs,
                   constructed, wrapped, eerror, result, mutations>>
    /\ UNCHANGED <<convVars, upVars>>

\* Lines 54-55: anything else.
RaiseNotImplemented ==
    /\ epc = "transform"
    /\ transform.kind \notin {"None", "Compose", "Transform"}
    /\ epc' = "raised"
    /\ eerror' = [type |-> "NotImplementedError", arg |-> "none"]
    /\ UNCHANGED <<cfg, transform, heap, clsfunc, kwargs, create_env_kwargs, worker, cur,
                   tfi, envs, constructed, wrapped, result, mutations>>
    /\ UNCHANGED <<convVars, upVars>>

\* Line 57, and lines 59-66 once the last worker's environment is back.
ReturnEnv ==
    /\ epc = "return"
    /\ envs' = Append(envs, cur)
    /\ cur' = NoEnv
    /\ worker' = worker + 1
    /\ IF worker + 1 = cfg.rollout_batch_size
       THEN epc' = "done" /\ result' = "SerialEnv"
       ELSE epc' = "instantiate" /\ UNCHANGED result
    /\ UNCHANGED <<cfg, transform, heap, clsfunc, kwargs, create_env_kwargs, tfi,
                   constructed, wrapped, eerror, mutations>>
    /\ UNCHANGED <<convVars, upVars>>

\* After construction a transform object changes its state (a step is counted,
\* a normalisation statistic is updated).
Mutate ==
    /\ epc = "done"
    /\ mutations < MaxMutations
    /\ \E id \in 1..Len(heap) :
         heap' = [heap EXCEPT ![id].state = 1 - heap[id].state]
    /\ mutations' = mutations + 1
    /\ UNCHANGED <<cfg, transform, epc, clsfunc, kwargs, create_env_kwargs, worker, cur,
                   tfi, envs, constructed, wrapped, eerror, result>>
    /\ UNCHANGED <<convVars, upVars>>

(***************************************************************************)
(* convert_lists_to_tensors                                                *)
(***************************************************************************)
\* torch.float32 has a significand of 24 bits.
F32Precision == 24

RECURSIVE Pow2(_)
Pow2(n) == IF n = 0 THEN 1 ELSE 2 * Pow2(n - 1)

\* The smallest power of two p with n \div p < 2^24.
RECURSIVE F32Unit(_, _)
F32Unit(n, p) == IF n \div p < Pow2(F32Precision) THEN p ELSE F32Unit(n, 2 * p)

\* The float32 nearest to the number n >= 0, ties to even.
F32Abs(n) ==
    LET p == F32Unit(n, 1)
        q == n \div p
        r == n % p
        up == (2 * r > p) \/ (2 * r = p /\ q % 2 = 1)
    IN (IF up THEN q + 1 ELSE q) * p

\* The value a number has as a torch.float32.
F32(n) == IF n < 0 THEN 0 - F32Abs(0 - n) ELSE F32Abs(n)

\* 2^24 is a float32; 2^24 + 1 and 2^24 + 3 are not.
Big0 == Pow2(F32Precision)
Big1 == Big0 + 1
Big3 == Big0 + 3

Num(n) == [t |-> "num", v |-> n]
NoneElem == [t |-> "none", v |-> 0]

PyList(data) == [kind |-> "list", dtype |-> "py", data |-> data]
Tensor(dtype, data) == [kind |-> "tensor", dtype |-> dtype, data |-> data]
PyScalar(n) == [kind |-> "scalar", dtype |-> "py", data |-> <<Num(n)>>]
PyNone == [kind |-> "none", dtype |-> "py", data |-> <<>>]

\* Whether torch.tensor(x, dtype=torch.float32) succeeds on this content.
Numeric(data) == \A i \in DOMAIN data : data[i].t = "num"

\* torch.tensor(x, dtype=torch.float32)
TorchTensor(data) == Tensor("float32", [i \in DOMAIN data |-> Num(F32(data[i].v))])

\* to_tensor without its isinstance(x, list) test (used by a mutant).
ToTensorOfAnything(x) ==
    IF Numeric(x.data) /\ x.kind # "none" THEN TorchTensor(x.data) ELSE x

\* Lines 48-54: to_tensor.
ToTensor(x) ==
    IF x.kind = "list"
    THEN IF Numeric(x.data) THEN TorchTensor(x.data) ELSE x
    ELSE x

ColumnOrder == <<"action", "observation.state">>
Columns == {ColumnOrder[i] : i \in DOMAIN ColumnOrder}

InSeq(x, s) == \E i \in DOMAIN s : s[i] = x

\* Lines 57-58: the columns whose value in the first row is a list.
ColumnsToConvert(ds) ==
    LET IsList(k) == ds[1][k].kind = "list"
    IN SelectSeq(ColumnOrder, IsList)

\* Lines 61-66: dataset.map over the rows.
MapRows(ds, cols) ==
    [i \in DOMAIN ds |->
        [k \in Columns |-> IF InSeq(k, cols) THEN ToTensor(ds[i][k]) ELSE ds[i][k]]]

\* Dataset.add_column(col, values)
AddColumn(ds, col, values) == [i \in DOMAIN ds |-> [ds[i] EXCEPT ![col] = values[i]]]

\* Lines 69-71: the loop adding the converted columns back.
RECURSIVE AddConverted(_, _, _)
AddConverted(converted, cols, ds) ==
    IF cols = <<>> THEN converted
    ELSE AddConverted(
             AddColumn(converted, Head(cols), [i \in DOMAIN ds |-> ToTensor(ds[i][Head(cols)])]),
             Tail(cols), ds)

\* A mutant of ConvertListsToTensors: every cell is cast to float32, whatever
\* it holds.
ConvertEverything(ds) ==
    [i \in DOMAIN ds |-> [k \in Columns |-> ToTensorOfAnything(ds[i][k])]]

\* Lines 46-73: convert_lists_to_tensors on a dataset with at least one row.
ConvertListsToTensors(ds) ==
    LET cols == ColumnsToConvert(ds)
    IN AddConverted(MapRows(ds, cols), cols, ds)

\* The values a cell of a saved dataset may hold.
CellValues ==
    { PyList(<<Num(Big1), Num(Big3)>>),
      PyList(<<Num(1), NoneElem>>),
      PyList(<<>>),
      Tensor("float32", <<Num(Big0)>>),
      Tensor("int64", <<Num(Big1)>>),
      PyScalar(Big1),
      PyNone }

Datasets == UNION {[1..n -> [Columns -> CellValues]] : n \in 0..MaxRows}

ConvInit ==
    /\ dataset \in Datasets
    /\ once = <<>>
    /\ twice = <<>>
    /\ cpc = "start"
    \* the other flows are not running
    /\ cfg = [name |-> "pusht", seed |-> 0, rollout_batch_size |-> 1, episode_length |-> 5]
    /\ transform = [kind |-> "None", items |-> <<>>]
    /\ heap = <<>>
    /\ epc = "idle"
    /\ clsfunc = "none"
    /\ kwargs = [seed |-> 0]
    /\ create_env_kwargs = <<>>
    /\ worker = 0
    /\ cur = NoEnv
    /\ tfi = 1
    /\ envs = <<>>
    /\ constructed = 0
    /\ wrapped = 0
    /\ eerror = NoError
    /\ result = "none"
    /\ mutations = 0
    /\ args = [compute_stats |-> FALSE]
    /\ fs = [root |-> FALSE, train |-> FALSE, meta |-> FALSE, infoFile |-> FALSE,
             indexFile |-> FALSE, table |-> <<>>,
             indexContents |-> [source |-> "file", of |-> <<>>, id |-> 1]]
    /\ upc = "idle"
    /\ log = <<>>
    /\ hf_dataset = <<>>
    /\ info = "none"
    /\ episode_data_index = NoIndex
    /\ calcCalls = 0
    /\ loadCalls = 0
    /\ lerobot_dataset = NoDataset
    /\ pushCalls = 0
    /\ pushed = NoDataset
    /\ uerror = NoError

\* Line 57 on a dataset without rows: dataset[0] raises IndexError.
ConvertEmpty ==
    /\ cpc = "start"
    /\ dataset = <<>>
    /\ cpc' = "raised"
    /\ UNCHANGED <<dataset, once, twice>>
    /\ UNCHANGED <<envVars, upVars>>

\* convert_lists_to_tensors(dataset)
ConvertOnce ==
    /\ cpc = "start"
    /\ dataset # <<>>
    /\ once' = ConvertListsToTensors(dataset)
    /\ cpc' = "once"
    /\ UNCHANGED <<dataset, twice>>
    /\ UNCHANGED <<envVars, upVars>>

\* convert_lists_to_tensors applied to its own result
ConvertTwice ==
    /\ cpc = "once"
    /\ twice' = ConvertListsToTensors(once)
    /\ cpc' = "twice"
    /\ UNCHANGED <<dataset, once>>
    /\ UNCHANGED <<envVars, upVars>>

(***************************************************************************)
(* main: the upload pipeline                                               *)
(***************************************************************************)
RepoId == "owner/name"

\* The row tables a saved dataset may hold.
DiskTables ==
    { <<>>,
      <<[k \in Columns |-> PyList(<<Num(Big1), Num(Big3)>>)]>>,
      <<[k \in Columns |-> IF k = "action" THEN PyList(<<Num(Big1), Num(Big3)>>) ELSE PyScalar(Big1)],
        [k \in Columns |-> IF k = "action" THEN PyList(<<Num(1), NoneElem>>) ELSE PyScalar(Big1)]>> }

IndexFiles == {[source |-> "file", of |-> <<>>, id |-> i] : i \in 1..2}

\* calculate_episode_data_index(hf_dataset): the index derived from a row table.
CalculateEpisodeDataIndex(table) == [source |-> "calculated", of |-> table, id |-> 0]

\* The directory trees main may be pointed at.
FileSystems ==
    { f \in [root : BOOLEAN, train : BOOLEAN, meta : BOOLEAN, infoFile : BOOLEAN,
             indexFile : BOOLEAN, table : DiskTables, indexContents : IndexFiles] :
        /\ (~f.root) => (~f.train /\ ~f.meta)
        /\ (~f.meta) => (~f.infoFile /\ ~f.indexFile)
        /\ (~f.train) => f.table = <<>>
        /\ (~f.indexFile) => f.indexContents.id = 1 }

\* A mutant of NextStep: the statistics are computed after the push.
NextStepStatsLast(pc, a) ==
    CASE pc = "root_check" -> "load_table"
      [] pc = "load_table" -> "convert"
      [] pc = "convert" -> "check_meta"
      [] pc = "check_meta" -> "load_info"
      [] pc = "load_info" -> "episode_index"
      [] pc = "episode_index" -> "assemble"
      [] pc = "assemble" -> "push"
      [] pc = "push" -> IF a.compute_stats THEN "stats" ELSE "done"
      [] OTHER -> "done"

\* Lines 76-128: the order of the statements of main.
NextStep(pc, a) ==
    CASE pc = "root_check" -> "load_table"
      [] pc = "load_table" -> "convert"
      [] pc = "convert" -> "check_meta"
      [] pc = "check_meta" -> "load_info"
      [] pc = "load_info" -> "episode_index"
      [] pc = "episode_index" -> "assemble"
      [] pc = "assemble" -> IF a.compute_stats THEN "stats" ELSE "push"
      [] pc = "stats" -> "push"
      [] OTHER -> "done"

\* A mutant of EpisodeIndexBranch: the index is always recomputed.
EpisodeIndexRecomputed(exists, contents, table) ==
    [index |-> CalculateEpisodeDataIndex(table), loads |-> 0, calcs |-> 1]

\* Lines 101-108: load the index file if it exists, else derive the index.
EpisodeIndexBranch(exists, contents, table) ==
    IF exists
    THEN [index |-> contents, loads |-> 1, calcs |-> 0]
    ELSE [index |-> CalculateEpisodeDataIndex(table), loads |-> 0, calcs |-> 1]

\* A mutant of RootMissing: the test of local_dir.exists() is missing.
RootNeverMissing(f) == FALSE

\* Line 81: not local_dir.exists()
RootMissing(f) == ~f.root

\* Line 94: not meta_data_dir.exists()
MetaMissing(f) == ~f.meta

UpInit ==
    /\ args \in [compute_stats : BOOLEAN]
    /\ fs \in FileSystems
    /\ upc = "root_check"
    /\ log = <<>>
    /\ hf_dataset = <<>>
    /\ info = "none"
    /\ episode_data_index = NoIndex
    /\ calcCalls = 0
    /\ loadCalls = 0
    /\ lerobot_dataset = NoDataset
    /\ pushCalls = 0
    /\ pushed = NoDataset
    /\ uerror = NoError
    \* the other flows are not running
    /\ cfg = [name |-> "pusht", seed |-> 0, rollout_batch_size |-> 1, episode_length |-> 5]
    /\ transform = [kind |-> "None", items |-> <<>>]
    /\ heap = <<>>
    /\ epc = "idle"
    /\ clsfunc = "none"
    /\ kwargs = [seed |-> 0]
    /\ create_env_kwargs = <<>>
    /\ worker = 0
    /\ cur = NoEnv
    /\ tfi = 1
    /\ envs = <<>>
    /\ constructed = 0
    /\ wrapped = 0
    /\ eerror = NoError
    /\ result = "none"
    /\ mutations = 0
    /\ dataset = <<>>
    /\ once = <<>>
    /\ twice = <<>>
    /\ cpc = "idle"

\* raise: main ends with an exception.
Abort(type, arg) ==
    /\ upc' = "aborted"
    /\ uerror' = [type |-> type, arg |-> arg]

\* Lines 80-82.
CheckRoot ==
    /\ upc = "root_check"
    /\ log' = Append(log, "root_check")
    /\ IF RootMissing(fs)
       THEN Abort("ValueError", "Dataset directory not found")
       ELSE upc' = NextStep("root_check", args) /\ UNCHANGED uerror
    /\ UNCHANGED <<args, fs, hf_dataset, info, episode_data_index, calcCalls, loadCalls,
                   lerobot_dataset, pushCalls, pushed>>
    /\ UNCHANGED <<envVars, convVars>>

\* Line 86: load_from_disk(local_dir / "train").
LoadTable ==
    /\ upc = "load_table"
    /\ log' = Append(log, "load_table")
    /\ IF ~fs.train
       THEN Abort("FileNotFoundError", "train") /\ UNCHANGED hf_dataset
       ELSE /\ hf_dataset' = fs.table
            /\ upc' = NextStep("load_table", args)
            /\ UNCHANGED uerror
    /\ UNCHANGED <<args, fs, info, episode_data_index, calcCalls, loadCalls,
                   lerobot_dataset, pushCalls, pushed>>
    /\ UNCHANGED <<envVars, convVars>>

\* Line 90: hf_dataset = convert_lists_to_tensors(hf_dataset).
ConvertTable ==
    /\ upc = "convert"
    /\ log' = Append(log, "convert")
    /\ IF hf_dataset = <<>>
       THEN Abort("IndexError", "dataset[0]") /\ UNCHANGED hf_dataset
       ELSE /\ hf_dataset' = ConvertListsToTensors(hf_dataset)
            /\ upc' = NextStep("convert", args)
            /\ UNCHANGED uerror
    /\ UNCHANGED <<args, fs, info, episode_data_index, calcCalls, loadCalls,
                   lerobot_dataset, pushCalls, pushed>>
    /\ UNCHANGED <<envVars, convVars>>

\* Lines 93-95.
CheckMeta ==
    /\ upc = "check_meta"
    /\ log' = Append(log, "check_meta")
    /\ IF MetaMissing(fs)
       THEN Abort("ValueError", "Metadata directory not found")
       ELSE upc' = NextStep("check_meta", args) /\ UNCHANGED uerror
    /\ UNCHANGED <<args, fs, hf_dataset, info, episode_data_index, calcCalls, loadCalls,
                   lerobot_dataset, pushCalls, pushed>>
    /\ UNCHANGED <<envVars, convVars>>

\* Lines 98-99: open and read meta_data/info.json.
LoadInfo ==
    /\ upc = "load_info"
    /\ log' = Append(log, "load_info")
    /\ IF ~fs.infoFile
       THEN Abort("FileNotFoundError", "info.json") /\ UNCHANGED info
       ELSE /\ info' = "info.json"
            /\ upc' = NextStep("load_info", args)
            /\ UNCHANGED uerror
    /\ UNCHANGED <<args, fs, hf_dataset, episode_data_index, calcCalls, loadCalls,
                   lerobot_dataset, pushCalls, pushed>>
    /\ UNCHANGED <<envVars, convVars>>

\* Lines 101-108.
EpisodeIndex ==
    /\ upc = "episode_index"
    /\ log' = Append(log, "episode_index")
    /\ LET b == EpisodeIndexBranch(fs.indexFile, fs.indexContents, hf_dataset)
       IN /\ episode_data_index' = b.index
          /\ loadCalls' = loadCalls + b.loads
          /\ calcCalls' = calcCalls + b.calcs
    /\ upc' = NextStep("episode_index", args)
    /\ UNCHANGED <<args, fs, hf_dataset, info, lerobot_dataset, pushCalls, pushed, uerror>>
    /\ UNCHANGED <<envVars, convVars>>

\* Lines 110-118: LeRobotDataset.from_preloaded(...), which may raise.
Assemble ==
    /\ upc = "assemble"
    /\ log' = Append(log, "assemble")
    /\ \E ok \in BOOLEAN :
         IF ok
         THEN /\ lerobot_dataset' =
                   [repo_id |-> RepoId, hf_dataset |-> hf_dataset,
                    episode_data_index |-> episode_data_index, info |-> info,
                    stats |-> "none"]
              /\ upc' = NextStep("assemble", args)
              /\ UNCHANGED uerror
         ELSE Abort("LibraryError", "from_preloaded") /\ UNCHANGED lerobot_dataset
    /\ UNCHANGED <<args, fs, hf_dataset, info, episode_data_index, calcCalls, loadCalls,
                   pushCalls, pushed>>
    /\ UNCHANGED <<envVars, convVars>>

\* Lines 120-123: compute_stats(lerobot_dataset), which may raise.
ComputeStats ==
    /\ upc = "stats"
    /\ log' = Append(log, "stats")
    /\ \E ok \in BOOLEAN :
         IF ok
         THEN /\ lerobot_dataset' = [lerobot_dataset EXCEPT !.stats = "computed"]
              /\ upc' = NextStep("stats", args)
              /\ UNCHANGED uerror
         ELSE Abort("LibraryError", "compute_stats") /\ UNCHANGED lerobot_dataset
    /\ UNCHANGED <<args, fs, hf_dataset, info, episode_data_index, calcCalls, loadCalls,
                   pushCalls, pushed>>
    /\ UNCHANGED <<envVars, convVars>>

\* Lines 125-128: push_lerobot_dataset_to_hub(lerobot_dataset, tags), which may raise.
Push ==
    /\ upc = "push"
    /\ log' = Append(log, "push")
    /\ pushCalls' = pushCalls + 1
    /\ \E ok \in BOOLEAN :
         IF ok
         THEN /\ pushed' = lerobot_dataset
              /\ upc' = NextStep("push", args)
              /\ UNCHANGED uerror
         ELSE Abort("LibraryError", "push_lerobot_dataset_to_hub") /\ UNCHANGED pushed
    /\ UNCHANGED <<args, fs, hf_dataset, info, episode_data_index, calcCalls, loadCalls,
                   lerobot_dataset>>
    /\ UNCHANGED <<envVars, convVars>>

(***************************************************************************)
(* The specifications: one per flow; the flows share no state.              *)
(***************************************************************************)
EnvNext ==
    \/ SelectEnv
    \/ MakeSerialEnv
    \/ Instantiate
    \/ Wrap
    \/ SkipTransform
    \/ AppendComposeClone
    \/ EndCompose
    \/ AppendSingleClone
    \/ RaiseNotImplemented
    \/ ReturnEnv
    \/ Mutate

ConvNext ==
    \/ ConvertEmpty
    \/ ConvertOnce
    \/ ConvertTwice

UpNext ==
    \/ CheckRoot
    \/ LoadTable
    \/ ConvertTable
    \/ CheckMeta
    \/ LoadInfo
    \/ EpisodeIndex
    \/ Assemble
    \/ ComputeStats
    \/ Push

SpecEnv == EnvInit /\ [][EnvNext]_vars
SpecConv == ConvInit /\ [][ConvNext]_vars
SpecUpload == UpInit /\ [][UpNext]_vars

(***************************************************************************)
(* Properties of make_env (checked under SpecEnv).                         *)
(***************************************************************************)
N == cfg.rollout_batch_size
K == Len(transform.items)

\* The environments that exist: those returned, and the one being built.
AllEnvs == IF cur = NoEnv THEN envs ELSE Append(envs, cur)

\* The clones attached to an environment, in order.
IsClone(t) == t.of # 0
ClonesOf(e) == SelectSeq(e.transforms, IsClone)

\* The attachments (environment, position) of transform objects.
Attachments ==
    UNION {{<<w, i>> : i \in DOMAIN AllEnvs[w].transforms} : w \in DOMAIN AllEnvs}
AttachedId(a) == AllEnvs[a[1]].transforms[a[2]].id

\* What a worker sees of its transforms, and the caller of the original chain.
View(w) == [i \in DOMAIN envs[w].transforms |-> heap[envs[w].transforms[i].id]]
CallerView == [i \in DOMAIN transform.items |-> heap[transform.items[i]]]

\* C1: when make_env has returned, exactly rollout_batch_size instances have
\* been constructed and the instance of worker i (counted from 0) has seed
\* cfg.seed + i.
C1_SeedPerWorker ==
    epc = "done" =>
        /\ constructed = N
        /\ Len(envs) = N
        /\ \A i \in 1..Len(envs) : envs[i].inst.seed = cfg.seed + (i - 1)

\* C2: a name other than the three supported ones makes make_env raise
\* ValueError(name) with no instance constructed, no wrapper built and nothing
\* returned; a supported name never raises ValueError.
C2_UnrecognizedNameFails ==
    /\ (cfg.name \notin Supported /\ epc # "select") =>
           /\ epc = "raised"
           /\ eerror = [type |-> "ValueError", arg |-> cfg.name]
           /\ constructed = 0
           /\ wrapped = 0
           /\ envs = <<>>
           /\ cur = NoEnv
           /\ result = "none"
    /\ cfg.name \in Supported => eerror.type # "ValueError"

C2_Witness ==
    /\ cfg.name = "Pusht"
    /\ epc = "raised"
    /\ eerror.type = "ValueError"

\* C3, the state part: every returned instance carries exactly one clone per
\* transform of the chain, in chain order (an instance being built carries a
\* prefix); no attached object is one of the caller's objects; no object is
\* attached twice.
C3_ClonesInv ==
    /\ \A w \in DOMAIN envs :
         transform.kind \in {"Compose", "Transform"} =>
             /\ Len(ClonesOf(envs[w])) = K
             /\ \A i \in 1..K :
                  /\ ClonesOf(envs[w])[i].of = transform.items[i]
                  /\ heap[ClonesOf(envs[w])[i].id].kind = heap[transform.items[i]].kind
    /\ \A w \in DOMAIN AllEnvs :
         /\ Len(ClonesOf(AllEnvs[w])) <= K
         /\ \A i \in DOMAIN ClonesOf(AllEnvs[w]) : ClonesOf(AllEnvs[w])[i].of = transform.items[i]
    /\ \A a \in Attachments : \A j \in DOMAIN transform.items : AttachedId(a) # transform.items[j]
    /\ \A a, b \in Attachments : a # b => AttachedId(a) # AttachedId(b)

\* C3, the step part: a change of the state of a transform changes what at
\* most one worker sees, and then it changes neither what any other worker
\* sees nor the caller's chain.
C3_MutationStep ==
    mutations' # mutations =>
        /\ \A w \in DOMAIN envs :
             View(w)' # View(w) =>
                 /\ CallerView' = CallerView
                 /\ \A v \in DOMAIN envs : v # w => View(v)' = View(v)
        /\ CallerView' # CallerView => \A v \in DOMAIN envs : View(v)' = View(v)

\* C3: each instance receives exactly k clones made for it, in chain order;
\* the caller's objects are never attached and no object is shared, so that
\* a mutation of one worker's transform is seen by no other worker and not by
\* the caller.
C3_IndependentClones == [](C3_ClonesInv) /\ [][C3_MutationStep]_vars

C3_Witness ==
    /\ epc = "done"
    /\ N >= 2
    /\ transform.kind = "Compose"
    /\ K = 2
    /\ mutations >= 1
    /\ heap[envs[1].transforms[2].id].state # heap[envs[2].transforms[2].id].state
    /\ heap[envs[2].transforms[2].id].state = heap[transform.items[1]].state

\* C4: when make_env raises NotImplementedError, no instance has been
\* constructed and no step-limited wrapper built.
C4_NoPartialConstruction ==
    eerror.type = "NotImplementedError" => (constructed = 0 /\ wrapped = 0)

NonNumeric(x) == x.kind = "list" /\ ~Numeric(x.data)

AllTensors(ds) == \A i \in DOMAIN ds : \A k \in Columns : ds[i][k].kind = "tensor"

\* C6: a candidate column with a non-numeric value in some row keeps every
\* row's original value.
C6_ColumnAllOrNothing ==
    cpc \in {"once", "twice"} =>
        \A k \in Columns :
            (InSeq(k, ColumnsToConvert(dataset)) /\ \E i \in DOMAIN dataset : NonNumeric(dataset[i][k]))
                => \A i \in DOMAIN dataset : once[i][k] = dataset[i][k]

\* C9: a dataset of tensors is returned with identical values, and converting
\* the result of a conversion changes nothing.
C9_Idempotent ==
    /\ (cpc \in {"once", "twice"} /\ AllTensors(dataset)) => once = dataset
    /\ cpc = "twice" => twice = once

C9_Witness ==
    /\ cpc = "twice"
    /\ Len(dataset) = 2
    /\ once # dataset
    /\ \E k \in Columns : once[1][k].kind = "tensor" /\ once[2][k].kind = "list"
    /\ \E k \in Columns : dataset[1][k] = Tensor("int64", <<Num(Big1)>>)

(***************************************************************************)
(* Properties of main (checked under SpecUpload).                          *)
(***************************************************************************)
StepOrder == <<"root_check", "load_table", "convert", "check_meta", "load_info",
               "episode_index", "assemble", "stats", "push">>
Rank(step) == CHOOSE i \in DOMAIN StepOrder : StepOrder[i] = step
InLog(step) == InSeq(step, log)
Last(s) == s[Len(s)]

\* C5 as stated: a run aborted because the dataset root or the metadata
\* directory is missing has performed no conversion and no push.
C5_AbortBeforeConversion ==
    (upc = "aborted" /\ uerror.type = "ValueError") => (~InLog("convert") /\ pushCalls = 0)

\* C5 as amended: a missing dataset root aborts the run at its first step,
\* before any conversion and any push; a missing metadata directory aborts the
\* run before any push, after the conversion has been performed.
C5_AbortBeforePush ==
    /\ (~fs.root /\ upc # "root_check") =>
           /\ upc = "aborted"
           /\ uerror = [type |-> "ValueError", arg |-> "Dataset directory not found"]
           /\ log = <<"root_check">>
           /\ hf_dataset = <<>>
           /\ pushCalls = 0
    /\ (upc = "aborted" /\ uerror.arg = "Metadata directory not found") =>
           /\ ~fs.meta
           /\ log = <<"root_check", "load_table", "convert", "check_meta">>
           /\ hf_dataset = ConvertListsToTensors(fs.table)
           /\ pushCalls = 0
    /\ ~fs.meta => (pushCalls = 0 /\ pushed = NoDataset /\ ~InLog("load_info"))

C5_Witness ==
    /\ upc = "aborted"
    /\ uerror.arg = "Metadata directory not found"
    /\ hf_dataset # fs.table

\* C7: with the index file present the index is the file's contents and
\* nothing is calculated; without it the index is calculated once from the
\* converted table; the assembled dataset holds that index; a successful run
\* took exactly one of the two branches.
C7_IndexLoadedOrDerived ==
    /\ (InLog("episode_index") /\ fs.indexFile) =>
           (episode_data_index = fs.indexContents /\ calcCalls = 0 /\ loadCalls = 1)
    /\ (InLog("episode_index") /\ ~fs.indexFile) =>
           /\ episode_data_index = CalculateEpisodeDataIndex(ConvertListsToTensors(fs.table))
           /\ calcCalls = 1
           /\ loadCalls = 0
    /\ ~InLog("episode_index") => (calcCalls = 0 /\ loadCalls = 0 /\ episode_data_index = NoIndex)
    /\ lerobot_dataset # NoDataset => lerobot_dataset.episode_data_index = episode_data_index
    /\ upc = "done" => (calcCalls + loadCalls = 1 /\ pushed.episode_data_index = episode_data_index)

C7_Witness ==
    /\ upc = "done"
    /\ fs.indexFile
    /\ fs.indexContents.id = 2
    /\ pushed.episode_data_index = fs.indexContents
    /\ calcCalls = 0

\* C8: the steps start in the fixed order, none skipped but the optional
\* statistics, none twice; the push is invoked at most once and is the last
\* step; an aborted run goes no further; without info.json the run neither
\* loads nor derives the episode index and never pushes.
C8_StepsInOrder ==
    /\ \A i, j \in DOMAIN log : i < j => Rank(log[i]) < Rank(log[j])
    /\ \A i \in DOMAIN log : \A r \in 1..(Rank(log[i]) - 1) :
         (StepOrder[r] # "stats" \/ args.compute_stats) => InLog(StepOrder[r])
    /\ InLog("stats") => args.compute_stats
    /\ pushCalls = Cardinality({i \in DOMAIN log : log[i] = "push"})
    /\ pushCalls <= 1
    /\ pushCalls = 1 => Last(log) = "push"
    /\ pushed # NoDataset => (pushCalls = 1 /\ pushed = lerobot_dataset)
    /\ upc = "aborted" => (uerror # NoError /\ ~ENABLED UpNext)
    /\ (upc \notin {"aborted", "done"}) =>
           (uerror = NoError /\ \A i \in DOMAIN log : Rank(log[i]) < Rank(upc))
    /\ upc = "done" => (Last(log) = "push" /\ pushed # NoDataset /\ uerror = NoError)
    /\ ~fs.infoFile =>
           (~InLog("episode_index") /\ calcCalls = 0 /\ loadCalls = 0 /\ pushCalls = 0)
    /\ (~fs.infoFile /\ InLog("load_info")) => upc = "aborted"

C8_Witness ==
    /\ upc = "aborted"
    /\ fs.meta
    /\ ~fs.infoFile
    /\ log = <<"root_check", "load_table", "convert", "check_meta", "load_info">>
    /\ uerror.type = "FileNotFoundError"

====
